---- MODULE Spec2Model ----
(***************************************************************************)
(* Model of HashMap<KeyType, ValueType, Hash> (src/hashmap.h): an open     *)
(* addressing table with robin-hood displacement and a rebuild that is     *)
(* triggered when a probe walk overflows BLOCK_SIZE.                       *)
(*                                                                         *)
(* Slot h of the C++ vectors table_ and from_ is element h+1 of the        *)
(* sequences table_ and from_ here.  A null unique_ptr is the empty        *)
(* sequence, an owned pair is <<first, second>>.                           *)
(***************************************************************************)
EXTENDS Integers, Sequences, FiniteSets, TLC

\* ---------------------------------------------------------------- bounds
\* KeyType: the keys 0 .. NumKeys-1 are used by the general specification
NumKeys == 3
\* the keys 0 .. AdvKeys-1 are used by the adversarial specification SpecAdv
AdvKeys == 14
\* const size_t DEFAULT_BLOCK_SIZE = 64 in the source.  The model scales the
\* default probe limit down so that probe walks overflow with a handful of
\* keys; like 64 it is even and at least 2.
DEFAULT_BLOCK_SIZE == 2

\* ---------------------------------------------------- program constants
\* static const size_t STANDARD_DIFF = 5
STANDARD_DIFF == 5

\* ValueType is instantiated as bool: 0 is false, 1 is true, and false is
\* the value-initialised ValueType that operator[] inserts
Vals == {0, 1}
DefaultValue == 0
NoVal == -1
NullPtr == << >>

\* the hash functors a table may be constructed with
HashFns == {"identity", "constant", "pairs"}

VARIABLES
    table_,      \* std::vector<unique_ptr<pair<const Key, Value>>>
    from_,       \* std::vector<PositionType>: displacement counter per slot
    size_,
    capacity_,
    BLOCK_SIZE,
    hasher_,     \* the Hash functor given to the constructor
    universe,    \* the keys the caller uses in this run
    live,        \* history: key -> value last associated, NoVal when absent
    ret,         \* the last public operation, its arguments and its result;
                 \* for insert and erase res is the slot in which the key
                 \* was found when the call began, NoVal when it was absent
    rebuilds,    \* the rebuilds the last operation ran, in completion order
    hung         \* TRUE when the last insert never returns

core == <<table_, from_, size_, capacity_, BLOCK_SIZE>>
vars == <<table_, from_, size_, capacity_, BLOCK_SIZE, hasher_, universe,
          live, ret, rebuilds, hung>>

\* ------------------------------------------------------------- helpers
RECURSIVE BitAnd(_, _)
BitAnd(a, b) ==
    IF a = 0 \/ b = 0 THEN 0
    ELSE (a % 2) * (b % 2) + 2 * BitAnd(a \div 2, b \div 2)

Max(a, b) == IF a >= b THEN a ELSE b

\* the hash values of an adversarial key set: runs of adjacent ideal buckets
\* that hold several keys each, and keys that share a bucket with them only
\* while the capacity is at most 64
AdvHashes == <<0, 2, 64, 3, 2, 3, 64, 1, 0, 3, 2, 0, 64, 67>>

\* hasher_(key)
HashOf(hf, key) ==
    CASE hf = "identity" -> key
      [] hf = "constant" -> 0
      [] hf = "pairs"    -> key \div 2
      [] hf = "adversarial" ->
            IF key < Len(AdvHashes) THEN AdvHashes[key + 1] ELSE 64 + key

GetBucket(hf, cap, key) == BitAnd(HashOf(hf, key), cap - 1)

GetNext(cap, h) == BitAnd(h + 1, cap - 1)

\* std::vector::resize(n): keeps the first n elements, appends fill
Resize(v, n, fill) ==
    [i \in 1 .. n |-> IF i <= Len(v) THEN v[i] ELSE fill]

\* the state of one HashMap object as the member functions see it; depth
\* counts the calls of Rebuild that are active, carry is the entry ptr that
\* the running insert holds when its probe walk ends, log collects a record
\* of every Rebuild when it returns
State(t, f, s, c, b) ==
    [table |-> t, from |-> f, size |-> s, cap |-> c, bs |-> b,
     hung |-> FALSE, depth |-> 0, carry |-> NullPtr, log |-> << >>]

\* mutant of FindLoop: the scan is limited by the default block size
RECURSIVE FindLoopDefaultLimit(_, _, _, _, _, _)
FindLoopDefaultLimit(t, cap, bs, key, h, it) ==
    IF it < DEFAULT_BLOCK_SIZE
    THEN IF t[h + 1] # NullPtr /\ t[h + 1][1] = key
         THEN h
         ELSE FindLoopDefaultLimit(t, cap, bs, key, GetNext(cap, h), it + 1)
    ELSE cap

\* mutant of FindLoop: the scan gives up at the first empty slot
RECURSIVE FindLoopStopAtGap(_, _, _, _, _, _)
FindLoopStopAtGap(t, cap, bs, key, h, it) ==
    IF it < bs /\ t[h + 1] # NullPtr
    THEN IF t[h + 1][1] = key
         THEN h
         ELSE FindLoopStopAtGap(t, cap, bs, key, GetNext(cap, h), it + 1)
    ELSE cap

\* PositionType FindPosition(const KeyType &key) const
RECURSIVE FindLoop(_, _, _, _, _, _)
FindLoop(t, cap, bs, key, h, it) ==
    IF it < bs
    THEN IF t[h + 1] # NullPtr /\ t[h + 1][1] = key
         THEN h
         ELSE FindLoop(t, cap, bs, key, GetNext(cap, h), it + 1)
    ELSE cap

FindPosition(hf, S, key) ==
    FindLoop(S.table, S.cap, S.bs, key, GetBucket(hf, S.cap, key), 0)

\* mutant of Walk: the evicted entry is carried on with the displacement of
\* the entry that took its slot
RECURSIVE WalkKeepsDiff(_, _, _, _, _, _, _)
WalkKeepsDiff(t, f, cap, bs, h2, diff, ptr) ==
    IF diff < bs /\ ptr # NullPtr
    THEN IF t[h2 + 1] = NullPtr \/ f[h2 + 1] < diff
         THEN WalkKeepsDiff([t EXCEPT ![h2 + 1] = ptr],
                            [f EXCEPT ![h2 + 1] = diff],
                            cap, bs, GetNext(cap, h2), diff + 1, t[h2 + 1])
         ELSE WalkKeepsDiff(t, f, cap, bs, GetNext(cap, h2), diff + 1, ptr)
    ELSE [table |-> t, from |-> f, ptr |-> ptr]

\* the inner while loop of insert: while (diff < BLOCK_SIZE && ptr)
RECURSIVE Walk(_, _, _, _, _, _, _)
Walk(t, f, cap, bs, h2, diff, ptr) ==
    IF diff < bs /\ ptr # NullPtr
    THEN IF t[h2 + 1] = NullPtr \/ f[h2 + 1] < diff
         THEN Walk([t EXCEPT ![h2 + 1] = ptr], [f EXCEPT ![h2 + 1] = diff],
                   cap, bs, GetNext(cap, h2), f[h2 + 1] + 1, t[h2 + 1])
         ELSE Walk(t, f, cap, bs, GetNext(cap, h2), diff + 1, ptr)
    ELSE [table |-> t, from |-> f, ptr |-> ptr]

\* mutant of GrowCapacity: the capacity is the scaled size itself
GrowCapacityLinear(size, cap) == Max(cap, size * STANDARD_DIFF)

\* while (size_ * STANDARD_DIFF > capacity_) capacity_ <<= 1;
RECURSIVE GrowCapacity(_, _)
GrowCapacity(size, cap) ==
    IF size * STANDARD_DIFF > cap THEN GrowCapacity(size, 2 * cap) ELSE cap

\* the occupied slots of the table, in slot order
Collect(t) == SelectSeq(t, LAMBDA e : e # NullPtr)

\* *std::max_element(cnt.begin(), cnt.end())
MaxCount(hf, cap, values) ==
    LET cnt(b) == Cardinality({i \in 1 .. Len(values) :
                                 GetBucket(hf, cap, values[i][1]) = b})
        counts == {cnt(b) : b \in 0 .. cap - 1}
    IN  CHOOSE m \in counts : \A c \in counts : c <= m

\* mutant of RebuildStart: size_ is not reset before the reinsertion
RebuildStartKeepsSize(hf, S) ==
    LET values == Collect(S.table)
        cap    == GrowCapacity(S.size, 1)
    IN  [S EXCEPT !.table = Resize([i \in 1 .. Len(S.table) |-> NullPtr],
                                   cap, NullPtr),
                  !.from = Resize(S.from, cap, 0),
                  !.cap = cap,
                  !.bs = Max(DEFAULT_BLOCK_SIZE, 2 * MaxCount(hf, cap, values)),
                  !.depth = S.depth + 1]

\* mutant of RebuildStart: the entries are counted per bucket under the
\* capacity the table had, before the new capacity is set
RebuildStartCountsOldBuckets(hf, S) ==
    LET values == Collect(S.table)
        cap    == GrowCapacity(S.size, 1)
    IN  [S EXCEPT !.table = Resize([i \in 1 .. Len(S.table) |-> NullPtr],
                                   cap, NullPtr),
                  !.from = Resize(S.from, cap, 0),
                  !.cap = cap,
                  !.bs = Max(DEFAULT_BLOCK_SIZE,
                             2 * MaxCount(hf, S.cap, values)),
                  !.size = 0,
                  !.depth = S.depth + 1]

\* Rebuild() up to size_ = 0: the entries are moved out of the table, the
\* capacity and BLOCK_SIZE are chosen, the vectors are resized
RebuildStart(hf, S) ==
    LET values == Collect(S.table)
        cap    == GrowCapacity(S.size, 1)
    IN  [S EXCEPT !.table = Resize([i \in 1 .. Len(S.table) |-> NullPtr],
                                   cap, NullPtr),
                  !.from = Resize(S.from, cap, 0),
                  !.cap = cap,
                  !.bs = Max(DEFAULT_BLOCK_SIZE, 2 * MaxCount(hf, cap, values)),
                  !.size = 0,
                  !.depth = S.depth + 1]

RECURSIVE InsertLoop(_, _, _, _)
RECURSIVE Rebuild(_, _)
RECURSIVE Reinsert(_, _, _, _)

\* mutant of Insert: a key that is present gets the new value
InsertOverwrite(hf, S, elem) ==
    LET h == FindPosition(hf, S, elem[1])
    IN  IF h # S.cap
        THEN [S EXCEPT !.table[h + 1] = elem]
        ELSE InsertLoop(hf, S, elem, {})

\* mutant of Insert: the duplicate check is missing
InsertNoDuplicateCheck(hf, S, elem) == InsertLoop(hf, S, elem, {})

\* mutant of Insert: the table is rebuilt before the walk when the new entry
\* would bring the load above 1 / STANDARD_DIFF
InsertRebuildsOnLoad(hf, S, elem) ==
    IF FindPosition(hf, S, elem[1]) # S.cap
    THEN S
    ELSE IF (S.size + 1) * STANDARD_DIFF > S.cap
    THEN InsertLoop(hf, Rebuild(hf, S), elem, {})
    ELSE InsertLoop(hf, S, elem, {})

\* void insert(std::pair<KeyType, ValueType> elem)
Insert(hf, S, elem) ==
    IF FindPosition(hf, S, elem[1]) # S.cap
    THEN S
    ELSE InsertLoop(hf, S, elem, {})

\* mutant of InsertLoop: after the rebuild the walk starts again with the
\* entry this iteration began with, whatever the walk still carried
RECURSIVE InsertLoopRetriesSame(_, _, _, _)
InsertLoopRetriesSame(hf, S, ptr, seen) ==
    LET here == <<S.table, S.from, S.size, S.cap, S.bs, ptr>>
        w == Walk(S.table, S.from, S.cap, S.bs,
                  GetBucket(hf, S.cap, ptr[1]), 0, ptr)
        W == [S EXCEPT !.table = w.table, !.from = w.from, !.carry = w.ptr]
    IN  IF here \in seen
        THEN [S EXCEPT !.hung = TRUE]
        ELSE IF w.ptr = NullPtr
        THEN [W EXCEPT !.size = S.size + 1]
        ELSE LET R == Rebuild(hf, W)
             IN  IF R.hung THEN R
                 ELSE InsertLoopRetriesSame(hf, R, ptr, seen \cup {here})

\* the while (true) loop of insert.  seen holds the states in which this
\* call stood at the head of the loop: the loop is deterministic, so
\* standing there twice in the same state means it never returns.
InsertLoop(hf, S, ptr, seen) ==
    LET here == <<S.table, S.from, S.size, S.cap, S.bs, ptr>>
        w == Walk(S.table, S.from, S.cap, S.bs,
                  GetBucket(hf, S.cap, ptr[1]), 0, ptr)
        W == [S EXCEPT !.table = w.table, !.from = w.from, !.carry = w.ptr]
    IN  IF here \in seen
        THEN [S EXCEPT !.hung = TRUE]
        ELSE IF w.ptr = NullPtr
        THEN [W EXCEPT !.size = S.size + 1]
        ELSE LET R == Rebuild(hf, W)
             IN  IF R.hung THEN R
                 ELSE InsertLoop(hf, R, w.ptr, seen \cup {here})

\* for (auto &p: values) insert(*p);
Reinsert(hf, S, values, i) ==
    IF i > Len(values) \/ S.hung
    THEN S
    ELSE Reinsert(hf, Insert(hf, S, values[i]), values, i + 1)

\* void Rebuild(); a call that returns adds a record of itself to the log
Rebuild(hf, S) ==
    LET S0 == RebuildStart(hf, S)
        R  == Reinsert(hf, S0, Collect(S.table), 1)
    IN  IF R.hung
        THEN R
        ELSE [R EXCEPT !.depth = S.depth,
                       !.log = Append(R.log,
                 [depth |-> S.depth + 1, n |-> Len(Collect(S.table)),
                  carried |-> S.carry,
                  capBefore |-> S.cap, bsBefore |-> S.bs,
                  capChosen |-> S0.cap, bsChosen |-> S0.bs,
                  capAfter |-> R.cap, bsAfter |-> R.bs,
                  sizeAfter |-> R.size])]

\* mutant of Erase: size_ is not decremented
EraseKeepsSize(hf, S, key) ==
    LET h == FindPosition(hf, S, key)
    IN  IF h = S.cap THEN S ELSE [S EXCEPT !.table[h + 1] = NullPtr]

\* void erase(KeyType key)
Erase(hf, S, key) ==
    LET h == FindPosition(hf, S, key)
    IN  IF h = S.cap
        THEN S
        ELSE [S EXCEPT !.size = S.size - 1, !.table[h + 1] = NullPtr]

\* mutant of Clear: BLOCK_SIZE keeps the value the last rebuild gave it
ClearKeepsBlockSize(S) ==
    [S EXCEPT !.size = 0, !.cap = 1,
              !.table = [Resize(S.table, 1, NullPtr) EXCEPT ![1] = NullPtr],
              !.from = Resize(S.from, 1, 0)]

\* void clear()
Clear(S) ==
    [S EXCEPT !.size = 0, !.cap = 1,
              !.table = [Resize(S.table, 1, NullPtr) EXCEPT ![1] = NullPtr],
              !.from = Resize(S.from, 1, 0),
              !.bs = DEFAULT_BLOCK_SIZE]

\* mutant of Index: the entry created for an absent key holds true
IndexInsertsTrue(hf, S, key) ==
    IF FindPosition(hf, S, key) = S.cap
    THEN Insert(hf, S, <<key, 1>>)
    ELSE S

\* ValueType &operator[](KeyType key): the state after the call
Index(hf, S, key) ==
    IF FindPosition(hf, S, key) = S.cap
    THEN Insert(hf, S, <<key, DefaultValue>>)
    ELSE S

\* HashMapIterator::operator++ after ++iterator_: skip the null slots
RECURSIVE SkipNull(_, _)
SkipNull(t, h) ==
    IF h # Len(t) /\ t[h + 1] = NullPtr THEN SkipNull(t, h + 1) ELSE h

\* HashMapIterator &operator++(); an iterator is the slot it points at,
\* Len(t) for table_.end()
Increment(t, h) == SkipNull(t, h + 1)

\* iterator end()
End(t) == Len(t)

\* mutant of Begin: the iterator is always advanced once
BeginAlwaysIncrements(t) == Increment(t, 0)

\* iterator begin()
Begin(t) == IF t[1] = NullPtr THEN Increment(t, 0) ELSE 0

\* for (auto it = begin(); it != end(); ++it): the slots visited from h on
RECURSIVE Traverse(_, _)
Traverse(t, h) ==
    IF h = End(t) THEN << >> ELSE <<h>> \o Traverse(t, Increment(t, h))

\* ------------------------------------------------------- the object now
Cur == State(table_, from_, size_, capacity_, BLOCK_SIZE)

Install(S) ==
    /\ table_' = S.table
    /\ from_' = S.from
    /\ size_' = S.size
    /\ capacity_' = S.cap
    /\ BLOCK_SIZE' = S.bs
    /\ rebuilds' = S.log
    /\ hung' = S.hung

\* iterator find(KeyType key): the slot, or capacity_ for end()
Find(key) == FindPosition(hasher_, Cur, key)

\* mutant of At: an absent key yields a value-initialised ValueType
AtDefaultWhenAbsent(key) ==
    LET h == Find(key)
    IN  IF h = capacity_ THEN DefaultValue ELSE table_[h + 1][2]

\* const ValueType &at(KeyType key) const: the value, or NoVal for the throw
At(key) ==
    LET h == Find(key)
    IN  IF h = capacity_ THEN NoVal ELSE table_[h + 1][2]

\* the table as the step under consideration leaves it
Post == State(table_', from_', size_', capacity_', BLOCK_SIZE')

\* find(key) and at(key) called on the table the step leaves
FindPost(key) == FindPosition(hasher_', Post, key)

AtPost(key) ==
    LET h == FindPost(key)
    IN  IF h = capacity_' THEN NoVal ELSE table_'[h + 1][2]

\* HashMap(Hash hasher = Hash())
Construct(hf, keys) ==
    /\ hasher_ = hf
    /\ size_ = 0
    /\ capacity_ = 1
    /\ table_ = <<NullPtr>>
    /\ from_ = <<0>>
    /\ BLOCK_SIZE = DEFAULT_BLOCK_SIZE
    /\ universe = keys
    /\ live = [k \in keys |-> NoVal]
    /\ ret = [op |-> "construct", key |-> NoVal, val |-> NoVal, res |-> NoVal]
    /\ rebuilds = << >>
    /\ hung = FALSE

Init == \E hf \in HashFns : Construct(hf, 0 .. NumKeys - 1)

InsertOp(key, val) ==
    /\ ~hung
    /\ LET S == Insert(hasher_, Cur, <<key, val>>)
       IN  /\ Install(S)
           /\ live' = IF live[key] = NoVal /\ ~S.hung
                      THEN [live EXCEPT ![key] = val] ELSE live
    /\ ret' = [op |-> "insert", key |-> key, val |-> val,
               res |-> IF Find(key) = capacity_ THEN NoVal ELSE Find(key)]
    /\ UNCHANGED <<hasher_, universe>>

EraseOp(key) ==
    /\ ~hung
    /\ Install(Erase(hasher_, Cur, key))
    /\ live' = [live EXCEPT ![key] = NoVal]
    /\ ret' = [op |-> "erase", key |-> key, val |-> NoVal,
               res |-> IF Find(key) = capacity_ THEN NoVal ELSE Find(key)]
    /\ UNCHANGED <<hasher_, universe>>

ClearOp ==
    /\ ~hung
    /\ Install(Clear(Cur))
    /\ live' = [k \in universe |-> NoVal]
    /\ ret' = [op |-> "clear", key |-> NoVal, val |-> NoVal, res |-> NoVal]
    /\ UNCHANGED <<hasher_, universe>>

\* t[key], reading the reference that operator[] returns
IndexOp(key) ==
    /\ ~hung
    /\ LET S == Index(hasher_, Cur, key)
           h == FindPosition(hasher_, S, key)
       IN  /\ Install(S)
           /\ live' = IF live[key] = NoVal /\ ~S.hung
                      THEN [live EXCEPT ![key] = DefaultValue] ELSE live
           /\ ret' = [op |-> "index", key |-> key, val |-> NoVal,
                      res |-> IF S.hung THEN NoVal ELSE S.table[h + 1][2]]
    /\ UNCHANGED <<hasher_, universe>>

\* t[key] = val, a store through the reference that operator[] returns
IndexAssignOp(key, val) ==
    /\ ~hung
    /\ LET S == Index(hasher_, Cur, key)
           h == FindPosition(hasher_, S, key)
       IN  /\ Install(IF S.hung THEN S
                      ELSE [S EXCEPT !.table[h + 1] = <<S.table[h + 1][1], val>>])
           /\ live' = IF S.hung THEN live ELSE [live EXCEPT ![key] = val]
    /\ ret' = [op |-> "assign", key |-> key, val |-> val, res |-> NoVal]
    /\ UNCHANGED <<hasher_, universe>>

\* t.find(key): res is the slot found, capacity_ for end()
FindOp(key) ==
    /\ ~hung
    /\ ret' = [op |-> "find", key |-> key, val |-> NoVal, res |-> Find(key)]
    /\ rebuilds' = << >>
    /\ UNCHANGED <<core, hasher_, universe, live, hung>>

\* t.at(key): res is the value returned, NoVal for std::out_of_range
AtOp(key) ==
    /\ ~hung
    /\ ret' = [op |-> "at", key |-> key, val |-> NoVal, res |-> At(key)]
    /\ rebuilds' = << >>
    /\ UNCHANGED <<core, hasher_, universe, live, hung>>

Next ==
    \/ \E k \in universe, v \in Vals : InsertOp(k, v)
    \/ \E k \in universe : EraseOp(k)
    \/ ClearOp
    \/ \E k \in universe : IndexOp(k)
    \/ \E k \in universe, v \in Vals : IndexAssignOp(k, v)
    \/ \E k \in universe : FindOp(k)
    \/ \E k \in universe : AtOp(k)

Spec == Init /\ [][Next]_vars

\* a table built with the adversarial hash, filled by a caller that inserts
\* the keys in nearly ascending order: the next key is one of the two
\* smallest keys not yet present
InitAdv == Construct("adversarial", 0 .. AdvKeys - 1)

Absent == {k \in universe : Find(k) = capacity_}
NextKeys == {k \in Absent : Cardinality({j \in Absent : j < k}) < 2}

NextAdv == \E k \in NextKeys : InsertOp(k, DefaultValue)

SpecAdv == InitAdv /\ [][NextAdv]_vars

\* both kinds of caller: any operation on the small key set, or the nearly
\* ascending inserts of the adversarial key set
InitAll == Init \/ InitAdv
NextAll == IF hasher_ = "adversarial" THEN NextAdv ELSE Next
SpecAll == InitAll /\ [][NextAll]_vars

\* ------------------------------------------------------------ observers
Slots == 0 .. Len(table_) - 1
Occupied == {h \in Slots : table_[h + 1] # NullPtr}
LiveKeys == {k \in universe : live[k] # NoVal}

\* the value t[key] yields, read through the reference operator[] returns
IndexValue(key) ==
    LET S == Index(hasher_, Cur, key)
    IN  S.table[FindPosition(hasher_, S, key) + 1][2]

\* the number of probe steps from the ideal bucket of the entry in slot h
Displacement(h) ==
    (h - GetBucket(hasher_, capacity_, table_[h + 1][1]) + capacity_) % capacity_

\* ---------------------------------------------------------------- claims

\* C1: every key that was inserted and not erased or cleared since is found
\* by find at a slot that holds that key, and find, at and index access all
\* yield the value last associated with the key.
RoundTrip ==
    ~hung =>
        \A k \in LiveKeys :
            /\ Find(k) # capacity_
            /\ table_[Find(k) + 1][1] = k
            /\ table_[Find(k) + 1][2] = live[k]
            /\ At(k) = live[k]
            /\ IndexValue(k) = live[k]

\* a displaced entry with a stored value other than the default is live
\* after an operation that rebuilt the table
RoundTripWitness ==
    /\ ~hung
    /\ rebuilds # << >>
    /\ \E k \in LiveKeys :
           /\ live[k] # DefaultValue
           /\ Find(k) # capacity_
           /\ Find(k) # GetBucket(hasher_, capacity_, k)

\* C2: no two occupied slots of the table hold the same key.
Uniqueness ==
    \A i \in Occupied : \A j \in Occupied :
        table_[i + 1][1] = table_[j + 1][1] => i = j

\* an insert of a key that was already present has returned, with other
\* entries in the table
UniquenessWitness ==
    /\ ret.op = "insert"
    /\ ret.res # NoVal
    /\ Cardinality(Occupied) >= 2

\* C3: every call to insert returns: the loop of probe walk, rebuild and
\* retry ends with the entry placed.
InsertTerminates == ~hung

\* C4: insert of a key that is present changes nothing: not the stored
\* value, not any other entry, not size, capacity or BLOCK_SIZE, and it
\* runs no rebuild.
FirstInsertWins ==
    [][\A k \in universe :
           (ret'.op = "insert" /\ ret'.key = k /\ live[k] # NoVal) =>
               /\ UNCHANGED <<table_, from_, size_, capacity_, BLOCK_SIZE, live>>
               /\ rebuilds' = << >>
               /\ ~hung']_vars

\* an insert of a present key with a value other than the stored one has
\* returned
FirstInsertWinsWitness ==
    /\ ret.op = "insert"
    /\ ret.res # NoVal
    /\ live[ret.key] # NoVal
    /\ ret.val # live[ret.key]

\* C5: erase of a present key leaves find reporting end() and size_ one
\* smaller; erase of an absent key changes nothing.
EraseCorrect ==
    [][\A k \in universe :
           (ret'.op = "erase" /\ ret'.key = k) =>
               IF live[k] # NoVal
               THEN /\ FindPost(k) = capacity_'
                    /\ size_' = size_ - 1
                    /\ capacity_' = capacity_
               ELSE UNCHANGED <<table_, from_, size_, capacity_, BLOCK_SIZE>>]_vars

\* an erase has removed one of several entries of a table that was rebuilt
EraseCorrectWitness ==
    /\ ret.op = "erase"
    /\ ret.res # NoVal
    /\ size_ >= 1
    /\ capacity_ > 1

\* C6: erase(k) leaves every other key where it was, found by find and
\* with its value, and no later erase or insert changes what a lookup of a
\* present key yields unless it changes that key's association.
EraseKeepsOthers ==
    [][/\ \A k \in universe :
              (ret'.op = "erase" /\ ret'.key = k) =>
                  \A j \in universe \ {k} :
                      /\ FindPost(j) = Find(j)
                      /\ AtPost(j) = At(j)
                      /\ live[j] # NoVal =>
                             (FindPost(j) # capacity_' /\ AtPost(j) = live[j])
       /\ (ret'.op \in {"erase", "insert"} /\ ~hung') =>
              \A j \in universe :
                  (live[j] # NoVal /\ live'[j] = live[j]) => AtPost(j) = At(j)]_vars

\* the slots the probe for key passes before it reaches the key's entry
ProbedBefore(key) ==
    {h \in Slots :
        (h - GetBucket(hasher_, capacity_, key) + capacity_) % capacity_
            < Displacement(Find(key))}

\* an erase has emptied a slot that the probe for another present key
\* passes before it reaches that key
EraseKeepsOthersWitness ==
    /\ ret.op = "erase"
    /\ ret.res # NoVal
    /\ \E j \in LiveKeys : ret.res \in ProbedBefore(j)

\* C7: after every public operation size_ is the number of live keys and
\* the number of occupied slots, also when the operation ran nested
\* rebuilds.
SizeAccounting ==
    ~hung =>
        /\ size_ = Cardinality(LiveKeys)
        /\ size_ = Cardinality(Occupied)

\* an insert has returned after a rebuild whose reinsertion ran a rebuild
SizeAccountingWitness ==
    /\ ~hung
    /\ ret.op = "insert"
    /\ \E i \in 1 .. Len(rebuilds) : rebuilds[i].depth >= 2

\* C8: when an insert that rebuilt the table returns, size_ * 5 <= capacity_.
LoadFactorAfterRebuild ==
    (~hung /\ ret.op = "insert" /\ rebuilds # << >>) =>
        size_ * STANDARD_DIFF <= capacity_

RECURSIVE IsPowerOfTwo(_)
IsPowerOfTwo(n) ==
    IF n <= 1 THEN n = 1 ELSE n % 2 = 0 /\ IsPowerOfTwo(n \div 2)

\* C9: capacity_ is a power of two, at least 1, and is the length of the
\* slot array.
CapacityInvariant ==
    /\ capacity_ >= 1
    /\ IsPowerOfTwo(capacity_)
    /\ Len(table_) = capacity_
    /\ Len(from_) = capacity_

\* an operation has rebuilt the table to a capacity that is not the one
\* the table had before
CapacityInvariantWitness ==
    /\ ~hung
    /\ rebuilds # << >>
    /\ rebuilds[Len(rebuilds)].capBefore > 1
    /\ capacity_ # rebuilds[Len(rebuilds)].capBefore

\* C10: a traversal from begin() by ++ reaches end() after size_ entries,
\* in increasing slot order, each key once, and the keys visited are the
\* live keys; begin() is end() when the table is empty.
IterationComplete ==
    ~hung =>
        LET tr == Traverse(table_, Begin(table_))
        IN  /\ Len(tr) = size_
            /\ \A i \in 1 .. Len(tr) : table_[tr[i] + 1] # NullPtr
            /\ \A i \in 1 .. Len(tr) - 1 : tr[i] < tr[i + 1]
            /\ \A i \in 1 .. Len(tr) : \A j \in 1 .. Len(tr) :
                   table_[tr[i] + 1][1] = table_[tr[j] + 1][1] => i = j
            /\ {table_[tr[i] + 1][1] : i \in 1 .. Len(tr)} = LiveKeys
            /\ (size_ = 0 => Begin(table_) = End(table_))

\* a table with several entries whose first and last slots are empty, so
\* that begin() and the last ++ both skip
IterationCompleteWitness ==
    /\ ~hung
    /\ size_ >= 2
    /\ table_[1] = NullPtr
    /\ table_[Len(table_)] = NullPtr

\* C11: at(key) throws exactly when key has no entry and returns the stored
\* value otherwise, and it leaves the table as it was; operator[] always
\* yields a value and find always yields a slot or end().
AtContract ==
    [][/\ \A k \in universe :
              (ret'.op = "at" /\ ret'.key = k) =>
                  /\ UNCHANGED <<table_, from_, size_, capacity_, BLOCK_SIZE, live>>
                  /\ ret'.res = NoVal <=> live[k] = NoVal
                  /\ live[k] # NoVal => ret'.res = live[k]
       /\ ret'.op = "index" => ret'.res \in Vals
       /\ ret'.op = "find" => ret'.res \in 0 .. capacity_']_vars

\* at has thrown for an absent key on a table that was rebuilt and holds
\* other entries
AtContractWitness ==
    /\ ret.op = "at"
    /\ ret.res = NoVal
    /\ size_ >= 1
    /\ capacity_ > 1

\* C12: t[key] on a table without key creates the entry (key, ValueType()),
\* makes size_ one larger and yields the stored default, and find(key)
\* succeeds afterwards; t[key] on a table with key yields the stored value
\* and changes nothing.
IndexAccess ==
    [][\A k \in universe :
           (ret'.op = "index" /\ ret'.key = k) =>
               IF Find(k) = capacity_
               THEN /\ size_' = size_ + 1
                    /\ ret'.res = DefaultValue
                    /\ FindPost(k) # capacity_'
                    /\ table_'[FindPost(k) + 1] = <<k, DefaultValue>>
                    /\ live' = [live EXCEPT ![k] = DefaultValue]
               ELSE /\ ret'.res = table_[Find(k) + 1][2]
                    /\ ret'.res = live[k]
                    /\ UNCHANGED <<table_, from_, size_, capacity_,
                                   BLOCK_SIZE, live>>]_vars

\* t[key] has created an entry by an insert that rebuilt the table
IndexAccessWitness ==
    /\ ret.op = "index"
    /\ rebuilds # << >>
    /\ ret.res = DefaultValue
    /\ size_ >= 2

\* what a caller can observe of a table: everything but the displacement
\* counters of empty slots, which resize() and erase() leave behind and
\* which insert overwrites before it reads them
Observable(S) ==
    [S EXCEPT !.from = [i \in 1 .. Len(S.from) |->
                            IF S.table[i] = NullPtr THEN 0 ELSE S.from[i]]]

\* the table the constructor leaves
Fresh == State(<<NullPtr>>, <<0>>, 0, 1, DEFAULT_BLOCK_SIZE)

\* every operation gives the same result and the same observable table on
\* S as on the table that has zero in the counters of the empty slots
SameBehaviour(S) ==
    LET N == Observable(S)
    IN  /\ \A k \in universe :
               /\ FindPosition(hasher_, S, k) = FindPosition(hasher_, N, k)
               /\ Observable(Erase(hasher_, S, k))
                      = Observable(Erase(hasher_, N, k))
               /\ Observable(Index(hasher_, S, k))
                      = Observable(Index(hasher_, N, k))
               /\ \A v \in Vals :
                      Observable(Insert(hasher_, S, <<k, v>>))
                          = Observable(Insert(hasher_, N, <<k, v>>))
        /\ Traverse(S.table, Begin(S.table)) = Traverse(N.table, Begin(N.table))
        /\ Observable(Clear(S)) = Observable(Clear(N))

\* C13: clear() leaves capacity 1, size 0, the default BLOCK_SIZE and no key
\* findable, a table that is observably the constructed one; and in every
\* reachable state the operations behave the same on tables that are
\* observably equal, so what follows a clear() is what follows construction.
ClearIsFresh ==
    /\ ret.op = "clear" =>
           /\ capacity_ = 1
           /\ size_ = 0
           /\ BLOCK_SIZE = DEFAULT_BLOCK_SIZE
           /\ table_ = <<NullPtr>>
           /\ Len(from_) = 1
           /\ \A k \in universe : Find(k) = capacity_
           /\ Observable(Cur) = Fresh
    /\ ~hung => SameBehaviour(Cur)

\* clear() has returned on a table whose slot 0 keeps a displacement
\* counter that the constructor does not leave
ClearIsFreshWitness ==
    /\ ret.op = "clear"
    /\ from_[1] # 0

\* C14: after every public operation the displacement counter of every
\* occupied slot is the number of probe steps from the ideal bucket of its
\* key to the slot, modulo the capacity, and is below BLOCK_SIZE.
DisplacementInvariant ==
    ~hung =>
        \A h \in Occupied :
            /\ from_[h + 1] = Displacement(h)
            /\ from_[h + 1] < BLOCK_SIZE

\* an entry sits two or more steps from its ideal bucket while an empty
\* slot keeps a counter from an entry that is gone
DisplacementInvariantWitness ==
    /\ ~hung
    /\ \E h \in Occupied : from_[h + 1] >= 2
    /\ \E h \in Slots \ Occupied : from_[h + 1] # 0

\* C15: every rebuild the last operation ran ended with a capacity above the
\* one it started from or with a BLOCK_SIZE above the one it started from.
RebuildProgress ==
    \A i \in 1 .. Len(rebuilds) :
        \/ rebuilds[i].capAfter > rebuilds[i].capBefore
        \/ rebuilds[i].bsAfter > rebuilds[i].bsBefore

\* C16 as claimed: every rebuild that the loop of a public insert calls is
\* followed by a retry with the entry that was passed to insert.
RetryWithOriginal ==
    ret.op = "insert" =>
        \A i \in 1 .. Len(rebuilds) :
            rebuilds[i].depth = 1 =>
                rebuilds[i].carried = <<ret.key, ret.val>>

\* C16 amended: the retry after a rebuild is made with the entry the probe
\* walk still carried, which is the entry passed to insert or an entry of
\* the table that the walk evicted; when insert returns, the entry passed to
\* it and the carried entry are both stored.
RetryWithCarried ==
    [][\A k \in universe :
           (ret'.op = "insert" /\ ret'.key = k) =>
               \A i \in 1 .. Len(rebuilds') :
                   rebuilds'[i].depth = 1 =>
                       LET c == rebuilds'[i].carried
                       IN  /\ c # NullPtr
                           /\ \/ c = <<k, ret'.val>>
                              \/ c[1] # k /\ live[c[1]] = c[2]
                           /\ ~hung' =>
                                  /\ AtPost(k) = ret'.val
                                  /\ AtPost(c[1]) = c[2]]_vars

\* an insert has returned after a rebuild that was followed by a retry with
\* an evicted entry
RetryWithCarriedWitness ==
    /\ ~hung
    /\ ret.op = "insert"
    /\ \E i \in 1 .. Len(rebuilds) :
           /\ rebuilds[i].depth = 1
           /\ rebuilds[i].carried[1] # ret.key

\* C17: every rebuild the last operation ran reallocated the table to a
\* capacity above the capacity the table had when the rebuild began.
RebuildGrows ==
    \A i \in 1 .. Len(rebuilds) :
        rebuilds[i].capChosen > rebuilds[i].capBefore

\* C18: when a rebuild has returned, the capacity is the smallest power of
\* two c with n * 5 <= c, n being the number of entries the rebuild
\* collected and reinserted, also when a reinsertion ran a nested rebuild.
RebuildCapacityChoice ==
    \A i \in 1 .. Len(rebuilds) :
        rebuilds[i].capAfter = GrowCapacity(rebuilds[i].n, 1)

\* the number of entries of the table, the one with key skip left out, whose
\* ideal bucket under the current capacity is b
BucketCount(b, skip) ==
    Cardinality({h \in Occupied :
                     /\ table_[h + 1][1] # skip
                     /\ GetBucket(hasher_, capacity_, table_[h + 1][1]) = b})

LargestBucket(skip) ==
    CHOOSE m \in {BucketCount(b, skip) : b \in Slots} :
        \A b \in Slots : BucketCount(b, skip) <= m

\* C19: BLOCK_SIZE is never below DEFAULT_BLOCK_SIZE, and after an operation
\* whose rebuilds were not nested BLOCK_SIZE is the value the last rebuild
\* set: max(DEFAULT_BLOCK_SIZE, 2 * m), m being the largest number of the
\* entries it collected (all entries but the one insert still carried) that
\* share an ideal bucket under the capacity it chose.
ProbeLimitPolicy ==
    /\ BLOCK_SIZE >= DEFAULT_BLOCK_SIZE
    /\ \A i \in 1 .. Len(rebuilds) :
           /\ rebuilds[i].bsChosen >= DEFAULT_BLOCK_SIZE
           /\ rebuilds[i].bsAfter >= DEFAULT_BLOCK_SIZE
    /\ (/\ ~hung
        /\ rebuilds # << >>
        /\ \A i \in 1 .. Len(rebuilds) : rebuilds[i].depth = 1) =>
           LET last == rebuilds[Len(rebuilds)]
           IN  /\ capacity_ = last.capChosen
               /\ BLOCK_SIZE = last.bsChosen
               /\ BLOCK_SIZE = Max(DEFAULT_BLOCK_SIZE,
                                   2 * LargestBucket(last.carried[1]))

\* an operation has returned after a rebuild that raised BLOCK_SIZE above
\* the default
ProbeLimitPolicyWitness ==
    /\ ~hung
    /\ rebuilds # << >>
    /\ \A i \in 1 .. Len(rebuilds) : rebuilds[i].depth = 1
    /\ BLOCK_SIZE > DEFAULT_BLOCK_SIZE
    /\ BLOCK_SIZE > rebuilds[Len(rebuilds)].bsBefore

\* the probe walk of insert for the absent key reaches an empty slot before
\* the displacement of the entry it carries reaches BLOCK_SIZE
WalkFits(key) ==
    Walk(table_, from_, capacity_, BLOCK_SIZE,
         GetBucket(hasher_, capacity_, key), 0, <<key, DefaultValue>>).ptr
        = NullPtr

\* C20: find and at change nothing; erase leaves capacity_, BLOCK_SIZE, the
\* counters and every slot but the erased one; an insert whose probe walk
\* fits leaves capacity_ and BLOCK_SIZE; a rebuild runs only in an insert
\* (also the one inside operator[]) of an absent key whose probe walk
\* overflows, and only a rebuild or clear changes capacity_ or BLOCK_SIZE.
RebuildOnlyOnOverflow ==
    [][/\ ret'.op \in {"find", "at"} =>
              /\ UNCHANGED <<table_, from_, size_, capacity_, BLOCK_SIZE>>
              /\ rebuilds' = << >>
       /\ \A k \in universe :
              /\ (ret'.op = "erase" /\ ret'.key = k) =>
                     /\ UNCHANGED <<from_, capacity_, BLOCK_SIZE>>
                     /\ rebuilds' = << >>
                     /\ \A h \in Slots :
                            h # Find(k) => table_'[h + 1] = table_[h + 1]
              /\ (/\ ret'.op = "insert"
                  /\ ret'.key = k
                  /\ Find(k) = capacity_
                  /\ WalkFits(k)) =>
                     /\ UNCHANGED <<capacity_, BLOCK_SIZE>>
                     /\ rebuilds' = << >>
                     /\ ~hung'
              /\ (rebuilds' # << >> /\ ret'.key = k) =>
                     /\ ret'.op \in {"insert", "index", "assign"}
                     /\ Find(k) = capacity_
                     /\ ~WalkFits(k)
       /\ (capacity_' # capacity_ \/ BLOCK_SIZE' # BLOCK_SIZE) =>
              (rebuilds' # << >> \/ ret'.op = "clear")]_vars

\* an insert has placed an entry without a rebuild in a table that then
\* holds more entries than a fifth of its capacity
RebuildOnlyOnOverflowWitness ==
    /\ ~hung
    /\ ret.op = "insert"
    /\ ret.res = NoVal
    /\ rebuilds = << >>
    /\ capacity_ > 1
    /\ size_ * STANDARD_DIFF > capacity_

====
